---- MODULE Spec2Model ----
(***************************************************************************)
(* vibe-rotas: rotation scheduling, assignment ledger and skip engine.     *)
(*                                                                         *)
(* Time is an instant counted in minutes of the server's local time zone   *)
(* (day * 1440 + minute of day).  The collections Rota and RotaAssignment  *)
(* are the variables rotas and assignments; an assignment's _id is its     *)
(* position in creation order, which is also its createdAt order.          *)
(***************************************************************************)
EXTENDS Integers, Sequences, FiniteSets, TLC

VARIABLES
    clock,        \* new Date(): the current instant
    rotas,        \* collection Rota: _id -> document
    assignments,  \* collection RotaAssignment, in creation order
    channel,      \* Slack: channel id -> the messages posted to it, in order
    isRunning,    \* schedulerService.js module variable
    cycles,       \* the processAllRotas invocations not yet settled, oldest first
    skips,        \* the handleSkipPerson invocations not yet settled, oldest first
    gate,         \* inputs and result of a stand-alone shouldExecuteToday call
    sweeps,       \* the retryFailedNotifications invocations not yet settled
    edits,        \* the updateRota invocations not yet settled
    retry,        \* a stand-alone sendNotificationWithRetry call
    verify        \* the last request given to verifySlackRequest and its answer

vars == <<clock, rotas, assignments, channel, isRunning, cycles, skips, gate, sweeps, edits, retry, verify>>

-----------------------------------------------------------------------------
(* Bounds of the model *)

\* last calendar day the clock reaches (days are 0..MaxDay)
MaxDay == 2
\* a skip request is only taken up while fewer records than this exist
MaxRecords == 3
\* last calendar day of the stand-alone shouldExecuteToday calls
GateMaxDay == 1
\* the largest attempt budget a sendNotificationWithRetry call is given
MaxBudget == 4
\* requests are signed and received at 0, 200, .. MaxRequestTimes * 200 seconds
MaxRequestTimes == 3

(* Program constants *)

MinutesPerDay == 1440
MinutesPerHour == 60
\* sendNotificationWithRetry(..., maxRetries = 3)
DefaultMaxRetries == 3
\* cron.schedule('*/15 * * * *')
CronStepMinutes == 15

MillisPerSecond == 1000
SweepWindowHours == 24
SweepBudget == 2
ReplayWindowSeconds == 300
RequestTimeStep == 200
Null == 0

-----------------------------------------------------------------------------
(* Dates *)

Instant(day, minute) == day * MinutesPerDay + minute
DayOf(instant) == instant \div MinutesPerDay
MinuteOfDay(instant) == instant % MinutesPerDay

\* rrule: RRule.after(dt, inc = true) is the first occurrence at or after dt.
\* Every occurrence carries the time of day of DTSTART; the occurrences are
\* intervalDays apart (DAILY 1, WEEKLY 7, BIWEEKLY 14).
RRuleAfter(rrule, after) ==
    LET first  == Instant(rrule.dtstartDay, rrule.dtstartMinute)
        period == rrule.intervalDays * MinutesPerDay
    IN  IF after <= first
        THEN first
        ELSE first + ((after - first + period - 1) \div period) * period

\* fault variant of getNextOccurrence: whether the string parses is not
\* looked at
NextOccurrenceUnchecked(rrule, after) == RRuleAfter(rrule, after)

\* rruleHelper.getNextOccurrence: null when the string does not parse
getNextOccurrence(rrule, after) ==
    IF rrule.valid THEN RRuleAfter(rrule, after) ELSE -1

\* The offset of an IANA zone from the server's local zone, in minutes.
TimezoneOffset(timezone) ==
    CASE timezone = "UTC" -> 0
      [] timezone = "America/New_York" -> -300
      [] timezone = "Asia/Tokyo" -> 540
      [] OTHER -> 0

WallMinute(instant, timezone) ==
    (MinuteOfDay(instant) + TimezoneOffset(timezone) + MinutesPerDay) % MinutesPerDay

\* timezoneHelper.getCurrentHourInTimezone: Intl.DateTimeFormat('en-US',
\* {hour: 'numeric', hour12: false}).  Under hour cycle h24 the hour after
\* midnight is formatted "24", under h23 it is "0"; which one hour12: false
\* selects for en-US depends on the ICU/V8 build.
HourCycles == {"h23", "h24"}

getCurrentHourInTimezone(instant, timezone, hourCycle) ==
    LET h == WallMinute(instant, timezone) \div MinutesPerHour
    IN  IF h = 0 /\ hourCycle = "h24" THEN 24 ELSE h

getCurrentMinuteInTimezone(instant, timezone) ==
    WallMinute(instant, timezone) % MinutesPerHour

\* schedulerService.shouldExecuteToday, steps 1 and 2
dateMatches(schedule, now) ==
    LET nextOccurrence == getNextOccurrence(schedule.rrule, now)
    IN  /\ nextOccurrence # -1
        /\ DayOf(nextOccurrence) = DayOf(now)

timeHasPassed(schedule, now, hourCycle) ==
    LET currentHour   == getCurrentHourInTimezone(now, schedule.timezone, hourCycle)
        currentMinute == getCurrentMinuteInTimezone(now, schedule.timezone)
        currentTimeInMinutes      == currentHour * MinutesPerHour + currentMinute
        notificationTimeInMinutes ==
            schedule.notificationHour * MinutesPerHour + schedule.notificationMinute
    IN  currentTimeInMinutes >= notificationTimeInMinutes

shouldExecuteToday(schedule, now, hourCycle) ==
    IF ~dateMatches(schedule, now) THEN FALSE
    ELSE timeHasPassed(schedule, now, hourCycle)

-----------------------------------------------------------------------------
(* Documents *)

\* the times of day at which the model observes the system: 09:45 and 10:00
ClockMinutes == <<585, 600>>

\* rruleHelper.generateRRule: dtstart = new Date(startDate), interval 2 for
\* BIWEEKLY.  (MONTHLY is not drawn by this model.)
generateRRule(frequency, startDate) ==
    [valid         |-> TRUE,
     dtstartDay    |-> DayOf(startDate),
     dtstartMinute |-> MinuteOfDay(startDate),
     intervalDays  |-> CASE frequency = "DAILY" -> 1
                         [] frequency = "WEEKLY" -> 7
                         [] frequency = "BIWEEKLY" -> 14]

\* rotaController.createRota: the stored document
createRota(workspaceId, channelId, members, frequency, startDate, notificationHour, notificationMinute, timezone) ==
    [workspaceId  |-> workspaceId,
     channelId    |-> channelId,
     members      |-> members,
     schedule     |-> [rrule              |-> generateRRule(frequency, startDate),
                       timezone           |-> timezone,
                       notificationHour   |-> notificationHour,
                       notificationMinute |-> notificationMinute],
     currentIndex |-> 0,
     isActive     |-> TRUE]

\* members[i] of a JavaScript array (0-based); undefined outside the array
At(members, i) ==
    IF i >= 0 /\ i < Len(members) THEN members[i + 1] ELSE "undefined"

\* RotaAssignment schema defaults, as set by assignmentService.createAssignment.
\* Every query on assignedDate is a range over one local day, so the record
\* keeps the start of that day.  origin is a history field: which caller
\* created the record.
NewAssignment(rotaId, workspaceId, userId, channelId, assignedDate, origin) ==
    [rotaId       |-> rotaId,
     workspaceId  |-> workspaceId,
     userId       |-> userId,
     assignedDate |-> Instant(DayOf(assignedDate), 0),
     createdAt    |-> clock,
     channelId    |-> channelId,
     notified     |-> FALSE,
     messageTs    |-> Null,
     skipped      |-> FALSE,
     skippedBy    |-> "null",
     replacedByAssignmentId |-> Null,
     origin       |-> origin]

AssignmentIds == 1 .. Len(assignments)

\* the records of one rota whose assignedDate falls on the local day of date
\* ($gte startOfDay, $lte endOfDay), oldest first
AssignmentsForDate(rotaId, date) ==
    SelectSeq(assignments,
              LAMBDA a : a.rotaId = rotaId /\ DayOf(a.assignedDate) = DayOf(date))

\* fault variants of assignmentExistsForToday: a check that never finds a
\* record, and a check that only counts delivered records
NeverExistsForToday(rotaId, date) == FALSE

NotifiedExistsForToday(rotaId, date) ==
    SelectSeq(AssignmentsForDate(rotaId, date), LAMBDA a : a.notified) # <<>>

\* assignmentService.assignmentExistsForToday
assignmentExistsForToday(rotaId, date) ==
    AssignmentsForDate(rotaId, date) # <<>>

\* fault variant of getNextAssignment: the cursor is saved as it was read
StuckAssignment(rota) ==
    [userId       |-> At(rota.members, rota.currentIndex),
     currentIndex |-> rota.currentIndex]

\* rotaController.getNextAssignment: the member read and the cursor saved
getNextAssignment(rota) ==
    [userId       |-> At(rota.members, rota.currentIndex),
     currentIndex |-> (rota.currentIndex + 1) % Len(rota.members)]

\* assignmentService.sendRotaNotification: the message posted.  The skip
\* button is added only with an assignment id and more than one member.
RotaNotification(rotaId, userId, assignmentId, memberCount) ==
    [rotaId     |-> rotaId,
     userId     |-> userId,
     skipButton |-> IF assignmentId # Null /\ memberCount > 1 THEN assignmentId ELSE Null,
     struck     |-> FALSE]

\* history field: the assignment record a posted message announces
SentFor(message, assignmentId) ==
    [rotaId     |-> message.rotaId,
     userId     |-> message.userId,
     skipButton |-> message.skipButton,
     struck     |-> message.struck,
     record     |-> assignmentId]

-----------------------------------------------------------------------------
(* State after construction *)

\* the loop variable rota while no rota is being processed
NoRota == [id |-> Null]

\* the locals of a processAllRotas invocation that has just been called
NewCycle ==
    [pc           |-> "find",
     queue        |-> <<>>,
     results      |-> [total |-> 0, processed |-> 0, skipped |-> 0, failed |-> 0,
                       errors |-> <<>>],
     rota         |-> NoRota,
     userId       |-> "null",
     assignmentId |-> Null,
     attempt      |-> 0,
     messageTs    |-> Null,
     last         |-> [rotaId |-> Null, outcome |-> "none"],
     returned     |-> "none"]

\* history: what processRota or the eligibility check last decided, for
\* which rota
Outcome(rotaId, outcome) == [rotaId |-> rotaId, outcome |-> outcome]

\* gate while no stand-alone shouldExecuteToday call is modelled
IdleGate == [now |-> -1]

\* a Slack request: the x-slack-request-timestamp header in seconds, the raw
\* body, and the x-slack-signature header as the key and the base string it
\* was computed from; wellFormed is false for a header of another length
NoRequest ==
    [timestamp |-> 0, body |-> "none",
     signature |-> [key |-> "none", base |-> <<>>, wellFormed |-> FALSE]]

\* verify before any request has arrived
IdleVerify == [now |-> 0, request |-> NoRequest, response |-> "none"]

\* retry while no stand-alone sendNotificationWithRetry call is modelled
IdleRetry ==
    [pc         |-> "off",
     maxRetries |-> 0,
     attempt    |-> 0,
     outcomes   |-> <<>>,
     waits      |-> <<>>,
     lastError  |-> "undefined",
     result     |-> Null,
     thrown     |-> [attempts |-> 0, message |-> "none"]]

InitRotas ==
    1 :> createRota("T1", "C1", <<"A", "B", "C">>, "DAILY", Instant(0, 1425), 10, 0, "UTC")
 @@ 2 :> createRota("T1", "C2", <<"D", "E">>, "DAILY", Instant(0, 600), 10, 0, "UTC")

Init ==
    /\ clock = Instant(0, ClockMinutes[1])
    /\ rotas = InitRotas
    /\ assignments = <<>>
    /\ channel = [c \in {"C1", "C2"} |-> <<>>]
    /\ isRunning = FALSE
    /\ cycles = <<>>
    /\ skips = <<>>
    /\ gate = IdleGate
    /\ sweeps = <<>>
    /\ edits = <<>>
    /\ retry = IdleRetry
    /\ verify = IdleVerify

\* a call has returned or thrown and its caller has not yet taken the value;
\* the caller's continuation runs before any timer or request is served
Returning ==
    \/ \E k \in 1 .. Len(cycles) : cycles[k].pc = "returned"
    \/ \E k \in 1 .. Len(skips) : skips[k].pc = "returned"

\* s with its i-th element removed
RemoveAt(s, i) == SubSeq(s, 1, i - 1) \o SubSeq(s, i + 1, Len(s))

-----------------------------------------------------------------------------
(* The clock *)

\* the next time of day the model observes
Tick ==
    /\ ~Returning
    /\ \E i \in 1 .. Len(ClockMinutes) - 1 :
          /\ MinuteOfDay(clock) = ClockMinutes[i]
          /\ clock' = Instant(DayOf(clock), ClockMinutes[i + 1])
    /\ UNCHANGED <<rotas, assignments, channel, isRunning, cycles, skips, gate, sweeps, edits, retry, verify>>

\* no call of a handler is in progress
Quiet == cycles = <<>> /\ skips = <<>> /\ sweeps = <<>> /\ edits = <<>>

\* from the last time of day observed to the first one of the following day,
\* 23 hours 45 minutes later: no call lasts that long
Midnight ==
    /\ Quiet
    /\ MinuteOfDay(clock) = ClockMinutes[Len(ClockMinutes)]
    /\ DayOf(clock) < MaxDay
    /\ clock' = Instant(DayOf(clock) + 1, ClockMinutes[1])
    /\ UNCHANGED <<rotas, assignments, channel, isRunning, cycles, skips, gate, sweeps, edits, retry, verify>>

-----------------------------------------------------------------------------
(* schedulerService.processAllRotas and processRota, one action per await. *)
(* cycles[k] holds the locals of one invocation: the cron callback, the    *)
(* start-up timer and POST /admin/scheduler/run all call processAllRotas.  *)

\* what the loop of processAllRotas keeps of a document returned by Rota.find
RotaSnapshot(id) ==
    [id          |-> id,
     workspaceId |-> rotas[id].workspaceId,
     channelId   |-> rotas[id].channelId,
     memberCount |-> Len(rotas[id].members),
     schedule    |-> rotas[id].schedule]

\* Rota.find({ isActive: true }), in _id order
RECURSIVE ActiveRotasFrom(_)
ActiveRotasFrom(ids) ==
    IF ids = {} THEN <<>>
    ELSE LET id == CHOOSE x \in ids : \A y \in ids : x <= y
         IN  (IF rotas[id].isActive THEN <<RotaSnapshot(id)>> ELSE <<>>)
             \o ActiveRotasFrom(ids \ {id})

\* an invocation that is past the guard and has not returned or thrown
Processing(c) == c.pc # "returned"

\* fault variant of the end of processAllRotas: the flag is cleared before a
\* return only, so a throw leaves it set
EndCycleClearingOnReturn(k, value) ==
    /\ isRunning' = (value = "throw")
    /\ cycles' = [cycles EXCEPT ![k] = [NewCycle EXCEPT !.pc = "returned",
                                                        !.returned = value]]

\* the finally block of processAllRotas together with its return or throw
EndCycle(k, value) ==
    /\ isRunning' = FALSE
    /\ cycles' = [cycles EXCEPT ![k] = [NewCycle EXCEPT !.pc = "returned",
                                                        !.returned = value]]

\* fault variant of the guard: the flag is never seen set
NeverRunning == FALSE

\* line 168: the single-flight guard
AlreadyRunning == isRunning

\* lines 168-174: a call made while a cycle runs returns undefined before
\* the try block is entered
ProcessAllRotas ==
    /\ ~Returning
    /\ Len(cycles) < 2
    /\ IF AlreadyRunning
       THEN /\ cycles' = Append(cycles, [NewCycle EXCEPT !.pc = "returned",
                                                         !.returned = "busy"])
            /\ UNCHANGED isRunning
       ELSE /\ isRunning' = TRUE
            /\ cycles' = Append(cycles, NewCycle)
    /\ UNCHANGED <<clock, rotas, assignments, channel, skips, gate, sweeps, edits, retry, verify>>

\* the caller has taken the returned value or the thrown error
Settle(k) ==
    /\ cycles[k].pc = "returned"
    /\ cycles' = RemoveAt(cycles, k)
    /\ UNCHANGED <<clock, rotas, assignments, channel, isRunning, skips, gate, sweeps, edits, retry, verify>>

\* lines 180-194
FindActiveRotas(k) ==
    /\ ~Returning
    /\ cycles[k].pc = "find"
    /\ LET found == ActiveRotasFrom(DOMAIN rotas)
       IN  IF found = <<>>
           THEN EndCycle(k, "empty")
           ELSE /\ cycles' = [cycles EXCEPT ![k].pc = "loop", ![k].queue = found,
                                            ![k].results.total = Len(found)]
                /\ UNCHANGED isRunning
    /\ UNCHANGED <<clock, rotas, assignments, channel, skips, gate, sweeps, edits, retry, verify>>

\* lines 197-208 and 225-231: the head of the loop, or its end
NextRota(k) ==
    /\ ~Returning
    /\ cycles[k].pc = "loop"
    /\ IF cycles[k].queue = <<>>
       THEN EndCycle(k, "results")
       ELSE LET rota == Head(cycles[k].queue)
            IN  /\ \E hourCycle \in HourCycles :
                     IF ~shouldExecuteToday(rota.schedule, clock, hourCycle)
                     THEN cycles' = [cycles EXCEPT
                                       ![k].queue = Tail(@),
                                       ![k].results.skipped = @ + 1,
                                       ![k].last = Outcome(rota.id, "not_scheduled")]
                     ELSE cycles' = [cycles EXCEPT ![k].queue = Tail(@),
                                                   ![k].pc = "exists",
                                                   ![k].rota = rota]
                /\ UNCHANGED isRunning
    /\ UNCHANGED <<clock, rotas, assignments, channel, skips, gate, sweeps, edits, retry, verify>>

\* lines 117-122 and 210-212
CheckAlreadyAssigned(k) ==
    /\ ~Returning
    /\ cycles[k].pc = "exists"
    /\ IF assignmentExistsForToday(cycles[k].rota.id, clock)
       THEN cycles' = [cycles EXCEPT ![k].pc = "loop", ![k].rota = NoRota,
                                     ![k].results.skipped = @ + 1,
                                     ![k].last = Outcome(cycles[k].rota.id,
                                                         "already_assigned")]
       ELSE cycles' = [cycles EXCEPT ![k].pc = "next"]
    /\ UNCHANGED <<clock, rotas, assignments, channel, isRunning, skips, gate, sweeps, edits, retry, verify>>

\* line 125: getNextAssignment reads the member at the cursor and saves the
\* advanced cursor
AdvanceCursor(k) ==
    /\ ~Returning
    /\ cycles[k].pc = "next"
    /\ LET id   == cycles[k].rota.id
           next == getNextAssignment(rotas[id])
       IN  /\ rotas' = [rotas EXCEPT ![id].currentIndex = next.currentIndex]
           /\ cycles' = [cycles EXCEPT ![k].pc = "create", ![k].userId = next.userId]
    /\ UNCHANGED <<clock, assignments, channel, isRunning, skips, gate, sweeps, edits, retry, verify>>

\* line 129: createAssignment(rotaId, workspaceId, userId, channelId, new Date())
CreateScheduledAssignment(k) ==
    /\ ~Returning
    /\ cycles[k].pc = "create"
    /\ IF cycles[k].userId = "undefined"
       THEN \* userId is required (RotaAssignment.js lines 15-18): save() rejects
            /\ cycles' = [cycles EXCEPT ![k].pc = "catch"]
            /\ UNCHANGED assignments
       ELSE /\ assignments' = Append(assignments,
                                     NewAssignment(cycles[k].rota.id,
                                                   cycles[k].rota.workspaceId,
                                                   cycles[k].userId,
                                                   cycles[k].rota.channelId,
                                                   clock, "cycle"))
            /\ cycles' = [cycles EXCEPT ![k].pc = "send",
                                        ![k].assignmentId = Len(assignments) + 1,
                                        ![k].attempt = 1]
    /\ UNCHANGED <<clock, rotas, channel, isRunning, skips, gate, sweeps, edits, retry, verify>>

\* lines 132-140, assignmentService 252-255: an attempt that Slack accepts
SendScheduledOk(k) ==
    /\ ~Returning
    /\ cycles[k].pc = "send"
    /\ LET c == cycles[k].rota.channelId
       IN  /\ channel' = [channel EXCEPT ![c] = Append(@,
                               SentFor(RotaNotification(cycles[k].rota.id,
                                                        cycles[k].userId,
                                                        cycles[k].assignmentId,
                                                        cycles[k].rota.memberCount),
                                       cycles[k].assignmentId))]
           /\ cycles' = [cycles EXCEPT ![k].pc = "mark",
                                       ![k].messageTs = Len(channel[c]) + 1]
    /\ UNCHANGED <<clock, rotas, assignments, isRunning, skips, gate, sweeps, edits, retry, verify>>

\* assignmentService 256-273: an attempt that fails; after the last one
\* sendNotificationWithRetry throws
SendScheduledFail(k) ==
    /\ ~Returning
    /\ cycles[k].pc = "send"
    /\ IF cycles[k].attempt < DefaultMaxRetries
       THEN cycles' = [cycles EXCEPT ![k].attempt = @ + 1]
       ELSE cycles' = [cycles EXCEPT ![k].pc = "catch"]
    /\ UNCHANGED <<clock, rotas, assignments, channel, isRunning, skips, gate, sweeps, edits, retry, verify>>

\* assignmentService.markAsNotified: findByIdAndUpdate
markAsNotified(assignmentId, messageTs) ==
    [assignments EXCEPT ![assignmentId].notified = TRUE,
                        ![assignmentId].messageTs = messageTs]

\* lines 143-152 and 210-215
MarkScheduledNotified(k) ==
    /\ ~Returning
    /\ cycles[k].pc = "mark"
    /\ assignments' = markAsNotified(cycles[k].assignmentId, cycles[k].messageTs)
    /\ cycles' = [cycles EXCEPT ![k].pc = "loop", ![k].rota = NoRota,
                                ![k].userId = "null", ![k].assignmentId = Null,
                                ![k].attempt = 0, ![k].messageTs = Null,
                                ![k].results.processed = @ + 1,
                                ![k].last = Outcome(cycles[k].rota.id, "processed")]
    /\ UNCHANGED <<clock, rotas, channel, isRunning, skips, gate, sweeps, edits, retry, verify>>

\* processRota declares rotaId with const inside its try block (line 108);
\* the catch block (lines 157 and 160) is outside that scope.
RotaIdInCatchScope == FALSE

\* lines 153-161: the catch block of processRota.  Reading an identifier
\* that is not in scope throws a ReferenceError, so the block throws in
\* place of returning { success: false, rotaId, error }.
ProcessRotaCatch(rotaId, message) ==
    IF RotaIdInCatchScope
    THEN [threw |-> FALSE, rotaId |-> rotaId, error |-> message]
    ELSE [threw |-> TRUE, rotaId |-> Null, error |-> "ReferenceError"]

\* lines 153-161, then 216-222 when processRota returns and 232-240 when it
\* throws
HandleRotaFailure(k) ==
    /\ ~Returning
    /\ cycles[k].pc = "catch"
    /\ LET r == ProcessRotaCatch(cycles[k].rota.id, "Failed to send notification")
       IN  IF r.threw
           THEN EndCycle(k, "throw")
           ELSE /\ cycles' = [cycles EXCEPT
                                ![k].pc = "loop", ![k].rota = NoRota,
                                ![k].userId = "null", ![k].assignmentId = Null,
                                ![k].attempt = 0,
                                ![k].results.failed = @ + 1,
                                ![k].results.errors =
                                    Append(@, [rotaId |-> r.rotaId, error |-> r.error]),
                                ![k].last = Outcome(cycles[k].rota.id, "failed")]
                /\ UNCHANGED isRunning
    /\ UNCHANGED <<clock, rotas, assignments, channel, skips, gate, sweeps, edits, retry, verify>>

Cycle ==
    \/ ProcessAllRotas
    \/ \E k \in 1 .. Len(cycles) :
        \/ Settle(k)
        \/ FindActiveRotas(k)
        \/ NextRota(k)
        \/ CheckAlreadyAssigned(k)
        \/ AdvanceCursor(k)
        \/ CreateScheduledAssignment(k)
        \/ SendScheduledOk(k)
        \/ SendScheduledFail(k)
        \/ MarkScheduledNotified(k)
        \/ HandleRotaFailure(k)

-----------------------------------------------------------------------------
(* skipHelper *)

\* skipHelper.getConsecutiveSkipCount: counts back from the newest record of
\* the day and stops at the first one that is not skipped
RECURSIVE CountSkippedFromEnd(_, _)
CountSkippedFromEnd(records, i) ==
    IF i = 0 THEN 0
    ELSE IF records[i].skipped THEN 1 + CountSkippedFromEnd(records, i - 1)
    ELSE 0

getConsecutiveSkipCount(rotaId, date) ==
    LET records == AssignmentsForDate(rotaId, date)
    IN  CountSkippedFromEnd(records, Len(records))

\* fault variant of canSkipAssignment: the number of members is not looked at
CanSkipWhateverMemberCount(rotaId, date) ==
    IF rotaId \notin DOMAIN rotas THEN "Rota not found"
    ELSE IF getConsecutiveSkipCount(rotaId, date) >= Len(rotas[rotaId].members) - 1
         THEN "Cannot skip: all other members have been skipped"
    ELSE "ok"

\* skipHelper.canSkipAssignment: the reason, or "ok"
canSkipAssignment(rotaId, date) ==
    IF rotaId \notin DOMAIN rotas THEN "Rota not found"
    ELSE IF Len(rotas[rotaId].members) <= 1 THEN "Cannot skip when rota has only one member"
    ELSE IF getConsecutiveSkipCount(rotaId, date) >= Len(rotas[rotaId].members) - 1
         THEN "Cannot skip: all other members have been skipped"
    ELSE "ok"

\* what the while loop of getNextAvailablePerson leaves when it runs out
NobodyAvailable == [userId |-> "undefined", newIndex |-> -1]

\* fault variant of the while loop: the members assigned today are not
\* excluded
RECURSIVE ScanWithoutExclusion(_, _, _, _)
ScanWithoutExclusion(members, assignedUserIds, currentIndex, attempts) ==
    IF attempts >= Len(members) THEN NobodyAvailable
    ELSE [userId   |-> At(members, (currentIndex + 1) % Len(members)),
          newIndex |-> (currentIndex + 1) % Len(members)]

\* the while loop of getNextAvailablePerson (lines 122-136)
RECURSIVE ScanMembers(_, _, _, _)
ScanMembers(members, assignedUserIds, currentIndex, attempts) ==
    IF attempts >= Len(members) THEN NobodyAvailable
    ELSE LET next == (currentIndex + 1) % Len(members)
         IN  IF At(members, next) \notin assignedUserIds
             THEN [userId |-> At(members, next), newIndex |-> next]
             ELSE ScanMembers(members, assignedUserIds, next, attempts + 1)

\* skipHelper.getNextAvailablePerson, for the day's records it is given
NextAvailablePerson(rota, records) ==
    LET assignedUserIds == {records[i].userId : i \in 1 .. Len(records)}
        found == ScanMembers(rota.members, assignedUserIds, rota.currentIndex, 0)
        fallbackIndex == (rota.currentIndex + 1) % Len(rota.members)
    IN  IF found # NobodyAvailable THEN found
        ELSE [userId |-> At(rota.members, fallbackIndex), newIndex |-> fallbackIndex]

getNextAvailablePerson(rotaId, date) ==
    NextAvailablePerson(rotas[rotaId], AssignmentsForDate(rotaId, date))

-----------------------------------------------------------------------------
(* skipController.handleSkipPerson, validateSkipRequest and performSkip,   *)
(* one action per await (reads that follow one another are one action)     *)

SkipActors == {"U"}

\* the methods of the SlackClient class that getSlackClient returns
SlackClientMethods ==
    {"makeRequest", "viewsPublish", "viewsOpen", "viewsUpdate", "chatPostMessage",
     "chatUpdate", "chatDelete", "usersInfo", "usersList", "conversationsInfo",
     "conversationsList", "teamInfo", "authTest"}

\* the users who press a button that has already been pressed
OtherSkipActors == {"V"}

\* the local assignment before RotaAssignment.findById has answered
NoAssignment == [rotaId |-> Null]

\* the locals of a handleSkipPerson invocation that has just been called
NewSkip(assignmentId, userId) ==
    [pc              |-> "load",
     assignmentId    |-> assignmentId,
     skippedByUserId |-> userId,
     assignment      |-> NoAssignment,
     loadedIndex     |-> Null,
     nextPerson      |-> NobodyAvailable,
     newAssignmentId |-> Null,
     attempt         |-> 0,
     edit            |-> "none",
     response        |-> "none"]

\* handleSkipPerson returns { success, error } or { success, newUserId }
SkipReturns(k, response) ==
    skips' = [skips EXCEPT ![k] = [NewSkip(@.assignmentId, @.skippedByUserId) EXCEPT
                                       !.pc = "returned", !.response = response,
                                       !.edit = skips[k].edit]]

\* fault variant of validateSkipRequest: the skipped flag of the record is not
\* looked at
ValidateIgnoringSkipped(assignmentId) ==
    IF assignmentId \notin AssignmentIds THEN "Assignment not found"
    ELSE canSkipAssignment(assignments[assignmentId].rotaId,
                           assignments[assignmentId].assignedDate)

\* validateSkipRequest (lines 76-123)
validateSkipRequest(assignmentId) ==
    IF assignmentId \notin AssignmentIds THEN "Assignment not found"
    ELSE IF assignments[assignmentId].skipped
         THEN "This assignment has already been skipped"
    ELSE canSkipAssignment(assignments[assignmentId].rotaId,
                           assignments[assignmentId].assignedDate)

\* fault variant of handleSkipPerson: the outcome of the validation is not
\* looked at and performSkip runs for every record that exists
HandleSkipPersonUnvalidated(assignmentId, userId) ==
    /\ ~Returning
    /\ Len(skips) < 1
    /\ Len(assignments) < MaxRecords
    /\ LET call == NewSkip(assignmentId, userId)
       IN  IF assignmentId \notin AssignmentIds
           THEN skips' = Append(skips, [call EXCEPT !.pc = "returned",
                                                    !.response = "Assignment not found"])
           ELSE skips' = Append(skips, [call EXCEPT
                                           !.pc = "load",
                                           !.assignment = assignments[assignmentId]])
    /\ UNCHANGED <<clock, rotas, assignments, channel, isRunning, cycles, gate, sweeps, edits, retry, verify>>

\* lines 292-316: a block action skip_person_{assignmentId} arrives and is
\* validated; a request that is refused returns its reason
HandleSkipPerson(assignmentId, userId) ==
    /\ ~Returning
    /\ Len(skips) < 1
    /\ Len(assignments) < MaxRecords
    /\ LET reason == validateSkipRequest(assignmentId)
           call   == NewSkip(assignmentId, userId)
       IN  IF reason # "ok"
           THEN skips' = Append(skips, [call EXCEPT !.pc = "returned",
                                                    !.response = reason])
           ELSE skips' = Append(skips, [call EXCEPT
                                           !.pc = "load",
                                           !.assignment = assignments[assignmentId]])
    /\ UNCHANGED <<clock, rotas, assignments, channel, isRunning, cycles, gate, sweeps, edits, retry, verify>>

\* performSkip lines 137-144: Rota.findById, then getNextAvailablePerson
LoadRotaAndNextPerson(k) ==
    /\ ~Returning
    /\ skips[k].pc = "load"
    /\ LET a == skips[k].assignment
       IN  skips' = [skips EXCEPT
                       ![k].pc = "create",
                       ![k].loadedIndex = rotas[a.rotaId].currentIndex,
                       ![k].nextPerson = getNextAvailablePerson(a.rotaId, a.assignedDate)]
    /\ UNCHANGED <<clock, rotas, assignments, channel, isRunning, cycles, gate, sweeps, edits, retry, verify>>

\* lines 146-153
CreateReplacement(k) ==
    /\ ~Returning
    /\ skips[k].pc = "create"
    /\ LET a == skips[k].assignment
       IN  IF skips[k].nextPerson.userId = "undefined"
           THEN \* userId is required: save() rejects, handleSkipPerson catches
                /\ SkipReturns(k, "Failed to skip person. Please try again.")
                /\ UNCHANGED assignments
           ELSE /\ assignments' = Append(assignments,
                                         NewAssignment(a.rotaId, a.workspaceId,
                                                       skips[k].nextPerson.userId,
                                                       a.channelId, a.assignedDate,
                                                       "skip"))
                /\ skips' = [skips EXCEPT ![k].pc = "markSkipped",
                                          ![k].newAssignmentId = Len(assignments) + 1]
    /\ UNCHANGED <<clock, rotas, channel, isRunning, cycles, gate, sweeps, edits, retry, verify>>

\* fault variant of the save of the original: the link to the replacement is
\* not stored
MarkSkippedWithoutLink(k) ==
    /\ ~Returning
    /\ skips[k].pc = "markSkipped"
    /\ assignments' = [assignments EXCEPT
                         ![skips[k].assignmentId].skipped = TRUE,
                         ![skips[k].assignmentId].skippedBy = skips[k].skippedByUserId]
    /\ skips' = [skips EXCEPT ![k].pc = "saveRota"]
    /\ UNCHANGED <<clock, rotas, channel, isRunning, cycles, gate, sweeps, edits, retry, verify>>

\* lines 155-160: assignment.save() writes the paths that were set
MarkOriginalSkipped(k) ==
    /\ ~Returning
    /\ skips[k].pc = "markSkipped"
    /\ assignments' = [assignments EXCEPT
                         ![skips[k].assignmentId].skipped = TRUE,
                         ![skips[k].assignmentId].skippedBy = skips[k].skippedByUserId,
                         ![skips[k].assignmentId].replacedByAssignmentId =
                             skips[k].newAssignmentId]
    /\ skips' = [skips EXCEPT ![k].pc = "saveRota"]
    /\ UNCHANGED <<clock, rotas, channel, isRunning, cycles, gate, sweeps, edits, retry, verify>>

\* lines 162-164: rota.save() writes currentIndex when the value set differs
\* from the one loaded
SaveRotaIndex(k) ==
    /\ ~Returning
    /\ skips[k].pc = "saveRota"
    /\ LET id == skips[k].assignment.rotaId
       IN  IF skips[k].nextPerson.newIndex # skips[k].loadedIndex
           THEN rotas' = [rotas EXCEPT ![id].currentIndex = skips[k].nextPerson.newIndex]
           ELSE UNCHANGED rotas
    /\ skips' = [skips EXCEPT ![k].pc = "edit"]
    /\ UNCHANGED <<clock, assignments, channel, isRunning, cycles, gate, sweeps, edits, retry, verify>>

\* fault variant of the edit: an error of conversations.history or chat.update
\* is thrown on to performSkip
UpdateSkippedMessageOrThrow(k) ==
    /\ ~Returning
    /\ skips[k].pc = "edit"
    /\ LET a == skips[k].assignment
       IN  \E slackOk \in BOOLEAN :
             IF a.messageTs # Null /\ ~slackOk
             THEN /\ skips' = [skips EXCEPT
                                ![k] = [NewSkip(@.assignmentId, @.skippedByUserId) EXCEPT
                                          !.pc = "returned", !.edit = "failed",
                                          !.response = "Failed to skip person. Please try again."]]
                  /\ UNCHANGED channel
             ELSE /\ IF a.messageTs # Null
                     THEN channel' = [channel EXCEPT
                                        ![a.channelId][a.messageTs].struck = TRUE]
                     ELSE UNCHANGED channel
                  /\ skips' = [skips EXCEPT
                                 ![k].pc = "send", ![k].attempt = 1,
                                 ![k].edit = IF a.messageTs = Null THEN "no_message"
                                             ELSE "ok"]
    /\ UNCHANGED <<clock, rotas, assignments, isRunning, cycles, gate, sweeps, edits, retry, verify>>

\* lines 166-175 and updateSkippedMessage (214-287): without a messageTs
\* nothing is edited; a failure of conversations.history or chat.update is
\* logged and swallowed
UpdateSkippedMessage(k) ==
    /\ ~Returning
    /\ skips[k].pc = "edit"
    /\ LET a == skips[k].assignment
       IN  \E slackOk \in BOOLEAN :
             LET \* line 222: calling a method the client does not have raises a
                 \* TypeError inside the try, before chat.update is reached
                 updated == /\ a.messageTs # Null
                            /\ "conversationsHistory" \in SlackClientMethods
                            /\ slackOk
             IN  /\ IF updated
                    THEN channel' = [channel EXCEPT
                                       ![a.channelId][a.messageTs].struck = TRUE]
                    ELSE UNCHANGED channel
                 /\ skips' = [skips EXCEPT
                                ![k].pc = "send", ![k].attempt = 1,
                                ![k].edit = IF a.messageTs = Null THEN "no_message"
                                            ELSE IF updated THEN "ok" ELSE "failed"]
    /\ UNCHANGED <<clock, rotas, assignments, isRunning, cycles, gate, sweeps, edits, retry, verify>>

\* lines 177-187: sendNotificationWithRetry is called without assignmentId
\* and memberCount, which default to null and 1; then markAsNotified
SendReplacementOk(k) ==
    /\ ~Returning
    /\ skips[k].pc = "send"
    /\ LET a == skips[k].assignment
       IN  /\ channel' = [channel EXCEPT ![a.channelId] = Append(@,
                               SentFor(RotaNotification(a.rotaId,
                                                        skips[k].nextPerson.userId,
                                                        Null, 1),
                                       skips[k].newAssignmentId))]
           /\ assignments' = markAsNotified(skips[k].newAssignmentId,
                                            Len(channel[a.channelId]) + 1)
    /\ SkipReturns(k, "success")
    /\ UNCHANGED <<clock, rotas, isRunning, cycles, gate, sweeps, edits, retry, verify>>

\* a failed attempt; after the last one performSkip throws and
\* handleSkipPerson answers "Failed to skip person" (lines 325-334)
SendReplacementFail(k) ==
    /\ ~Returning
    /\ skips[k].pc = "send"
    /\ IF skips[k].attempt < DefaultMaxRetries
       THEN skips' = [skips EXCEPT ![k].attempt = @ + 1]
       ELSE SkipReturns(k, "Failed to skip person. Please try again.")
    /\ UNCHANGED <<clock, rotas, assignments, channel, isRunning, cycles, gate, sweeps, edits, retry, verify>>

\* the block-action handler has taken the response
SettleSkip(k) ==
    /\ skips[k].pc = "returned"
    /\ skips' = RemoveAt(skips, k)
    /\ UNCHANGED <<clock, rotas, assignments, channel, isRunning, cycles, gate, sweeps, edits, retry, verify>>

Skip ==
    \/ \E id \in 1 .. Len(assignments) + 1, u \in SkipActors : HandleSkipPerson(id, u)
    \/ \E k \in 1 .. Len(skips) :
        \/ LoadRotaAndNextPerson(k)
        \/ CreateReplacement(k)
        \/ MarkOriginalSkipped(k)
        \/ SaveRotaIndex(k)
        \/ UpdateSkippedMessage(k)
        \/ SendReplacementOk(k)
        \/ SendReplacementFail(k)
        \/ SettleSkip(k)


-----------------------------------------------------------------------------

(* shouldExecuteToday on its own: one rota's schedule, called at every    *)
(* cron minute of the days 0 .. GateMaxDay                                 *)

\* the local calendar day of an instant in an IANA zone
WallDay(instant, timezone) == DayOf(instant + TimezoneOffset(timezone) + MinutesPerDay)

\* a stored schedule whose rrule string RRule.fromString rejects
Unparseable(schedule) == [schedule EXCEPT !.rrule.valid = FALSE]

ParseableGateSchedules ==
    {createRota("T1", "C1", <<"A", "B">>, frequency, startDate,
                time[1], time[2], timezone).schedule :
        frequency \in {"DAILY", "WEEKLY"},
        startDate \in {Instant(0, 0), Instant(0, 720), Instant(1, 1425)},
        time \in {<<10, 0>>, <<0, 30>>},
        timezone \in {"UTC", "America/New_York"}}

GateSchedules ==
    ParseableGateSchedules
        \cup {Unparseable(schedule) : schedule \in ParseableGateSchedules}

\* one call shouldExecuteToday(rota) at now; before is a history field: an
\* earlier call on the same day of the rota's zone returned true
GateCall(schedule, hourCycle, now, before) ==
    [schedule  |-> schedule,
     hourCycle |-> hourCycle,
     now       |-> now,
     result    |-> shouldExecuteToday(schedule, now, hourCycle),
     before    |-> before]

InitGate ==
    /\ clock = Instant(0, ClockMinutes[1])
    /\ rotas = InitRotas
    /\ assignments = <<>>
    /\ channel = [c \in {"C1", "C2"} |-> <<>>]
    /\ isRunning = FALSE
    /\ cycles = <<>>
    /\ skips = <<>>
    /\ sweeps = <<>>
    /\ edits = <<>>
    /\ retry = IdleRetry
    /\ verify = IdleVerify
    /\ \E schedule \in GateSchedules, hourCycle \in HourCycles :
          gate = GateCall(schedule, hourCycle, Instant(0, 0), FALSE)

\* the next cron minute: shouldExecuteToday is called again
GateTick ==
    /\ gate.now + CronStepMinutes < Instant(GateMaxDay + 1, 0)
    /\ LET now == gate.now + CronStepMinutes
           sameDay == WallDay(now, gate.schedule.timezone)
                        = WallDay(gate.now, gate.schedule.timezone)
       IN  gate' = GateCall(gate.schedule, gate.hourCycle, now,
                            sameDay /\ (gate.before \/ gate.result))
    /\ UNCHANGED <<clock, rotas, assignments, channel, isRunning, cycles, skips, sweeps, edits, retry, verify>>

NextGate == GateTick
SpecGate == InitGate /\ [][NextGate]_vars

\* the recurrence has an occurrence on the calendar day of now
OccurrenceDay(schedule, now) ==
    LET first == getNextOccurrence(schedule.rrule, Instant(DayOf(now), 0))
    IN  first # -1 /\ DayOf(first) = DayOf(now)

\* C5: shouldExecuteToday is monotonic within a day: once it has returned
\* true it returns true at every later minute of that day, and on a day
\* without an occurrence of the recurrence it returns false.
C5_MonotonicWithinDay ==
    /\ gate.before => gate.result
    /\ ~OccurrenceDay(gate.schedule, gate.now) => ~gate.result

C6_TrueExactlyFromNotificationTime ==
    OccurrenceDay(gate.schedule, gate.now) =>
        (gate.result <=>
            WallMinute(gate.now, gate.schedule.timezone) >=
                gate.schedule.notificationHour * MinutesPerHour
                    + gate.schedule.notificationMinute)

-----------------------------------------------------------------------------
(* The scheduler and the skip engine during one day *)
\* ---------------------------------------------------------------------------
\* sendNotificationWithRetry on its own (assignmentService.js lines 249-274):
\* one call at a time, every attempt of which succeeds or fails with one of
\* the error messages

SendErrors == {"channel_not_found", "ratelimited"}

\* the message handle (Slack ts) that attempt k returns when it succeeds
HandleOf(attempt) == attempt

\* fault variant of the loop condition
BelowMaxRetries(attempt, maxRetries) == attempt < maxRetries

\* line 252: attempt <= maxRetries
WithinMaxRetries(attempt, maxRetries) == attempt <= maxRetries

\* fault variant of the delay: linear in the attempt
LinearDelay(attempt) == attempt * MillisPerSecond

\* line 267: Math.pow(2, attempt) * 1000 milliseconds
BackoffDelay(attempt) == (2 ^ attempt) * MillisPerSecond

\* line 273: new Error(`Failed to send notification after ${maxRetries}
\* attempts: ${lastError.message}`)
RetryFailure(maxRetries, lastError) ==
    [attempts |-> maxRetries, message |-> lastError]

\* line 249-252: the call, attempt = 1
RetryCall ==
    /\ retry.pc \in {"off", "returned", "thrown"}
    /\ \E maxRetries \in 1 .. MaxBudget :
         retry' = [IdleRetry EXCEPT !.pc = "loop",
                                    !.maxRetries = maxRetries,
                                    !.attempt = 1]
    /\ UNCHANGED <<clock, rotas, assignments, channel, isRunning, cycles, skips, gate, sweeps, edits, verify>>

\* line 252: the loop condition; line 273 when it fails
RetryLoop ==
    /\ retry.pc = "loop"
    /\ IF WithinMaxRetries(retry.attempt, retry.maxRetries)
       THEN retry' = [retry EXCEPT !.pc = "send"]
       ELSE retry' = [retry EXCEPT
                        !.pc = "thrown",
                        !.thrown = RetryFailure(retry.maxRetries, retry.lastError)]
    /\ UNCHANGED <<clock, rotas, assignments, channel, isRunning, cycles, skips, gate, sweeps, edits, verify>>

\* lines 254-255: the send succeeds and its handle is returned
RetrySendOk ==
    /\ retry.pc = "send"
    /\ retry' = [retry EXCEPT !.pc = "returned",
                              !.outcomes = Append(@, "ok"),
                              !.result = HandleOf(retry.attempt)]
    /\ UNCHANGED <<clock, rotas, assignments, channel, isRunning, cycles, skips, gate, sweeps, edits, verify>>

\* lines 256-265: the send fails; the error is kept and the attempt is
\* followed by a delay when it is not the last one
RetrySendFail ==
    /\ retry.pc = "send"
    /\ \E error \in SendErrors :
         retry' = [retry EXCEPT
                     !.outcomes = Append(@, error),
                     !.lastError = error,
                     !.pc = IF retry.attempt < retry.maxRetries THEN "delay" ELSE "loop",
                     !.attempt = IF retry.attempt < retry.maxRetries THEN @ ELSE @ + 1]
    /\ UNCHANGED <<clock, rotas, assignments, channel, isRunning, cycles, skips, gate, sweeps, edits, verify>>

\* lines 267-268: the delay, then attempt++
RetryDelay ==
    /\ retry.pc = "delay"
    /\ retry' = [retry EXCEPT !.pc = "loop",
                              !.waits = Append(@, BackoffDelay(retry.attempt)),
                              !.attempt = @ + 1]
    /\ UNCHANGED <<clock, rotas, assignments, channel, isRunning, cycles, skips, gate, sweeps, edits, verify>>

NextRetry == RetryCall \/ RetryLoop \/ RetrySendOk \/ RetrySendFail \/ RetryDelay

SpecRetry == Init /\ [][NextRetry]_vars

\* the attempts of the call so far that failed
FailedAttempts == {i \in 1 .. Len(retry.outcomes) : retry.outcomes[i] # "ok"}

\* C16: a call with attempt budget N whose send fails on attempts 1..k-1 and
\* succeeds on attempt k <= N returns the handle of attempt k, after exactly
\* k-1 waits, the i-th of 2^i seconds, and attempt k is the last one made.
C16_SuccessOnAttemptK ==
    retry.pc = "returned" =>
        LET k == Len(retry.outcomes)
        IN  /\ k <= retry.maxRetries
            /\ FailedAttempts = 1 .. (k - 1)
            /\ retry.result = HandleOf(k)
            /\ Len(retry.waits) = k - 1
            /\ \A i \in 1 .. (k - 1) : retry.waits[i] = (2 ^ i) * MillisPerSecond

\* budget 3, two failures: the third attempt's handle after two delays
C16_Witness ==
    /\ retry.pc = "returned"
    /\ retry.maxRetries = DefaultMaxRetries
    /\ FailedAttempts = {1, 2}
    /\ retry.result = HandleOf(3)
    /\ Len(retry.waits) = 2

\* C17: no call makes more than maxRetries sends; a call all of whose sends
\* fail makes exactly maxRetries of them and then raises a failure with the
\* message of the last error, and returns no handle.
C17_ExhaustedRaisesLastError ==
    /\ Len(retry.outcomes) <= retry.maxRetries
    /\ retry.pc = "thrown" =>
         /\ Len(retry.outcomes) = retry.maxRetries
         /\ FailedAttempts = 1 .. retry.maxRetries
         /\ retry.thrown = RetryFailure(retry.maxRetries,
                                        retry.outcomes[retry.maxRetries])
         /\ retry.result = Null
    /\ retry.result # Null =>
         /\ retry.pc = "returned"
         /\ FailedAttempts # 1 .. Len(retry.outcomes)

\* three sends failed with the default budget and the failure is raised
C17_Witness ==
    /\ retry.pc = "thrown"
    /\ retry.maxRetries = DefaultMaxRetries
    /\ Len(retry.outcomes) = DefaultMaxRetries
    /\ retry.thrown.message = retry.outcomes[DefaultMaxRetries]

\* ---------------------------------------------------------------------------
\* retryFailedNotifications (schedulerService.js lines 246-297), started by
\* the six-hourly cron job and by POST /admin/scheduler/retry at any time

\* the parameters of sendNotificationWithRetry after customMessage, bound from
\* the trailing arguments of a call: assignmentId = null, memberCount = 1,
\* maxRetries = 3 are the defaults (assignmentService.js line 249)
RetryParameters(trailing) ==
    [assignmentId |-> IF Len(trailing) >= 1 THEN trailing[1] ELSE Null,
     memberCount  |-> IF Len(trailing) >= 2 THEN trailing[2] ELSE 1,
     maxRetries   |-> IF Len(trailing) >= 3 THEN trailing[3] ELSE DefaultMaxRetries]

\* lines 273-280: the sweep passes one argument after rota.customMessage
SweepTrailingArguments == <<SweepBudget>>

\* assignmentService.getUnnotifiedAssignments (lines 81-92) called without a
\* workspaceId: the records not notified and created at or after the cutoff,
\* oldest first. The filter holds workspaceId: undefined, which matches every
\* record where the driver drops the key and none where it sends null.
getUnnotifiedAssignments(now, workspaceMatches) ==
    SelectSeq([i \in 1 .. Len(assignments) |-> i],
              LAMBDA i : /\ workspaceMatches
                         /\ ~assignments[i].notified
                         /\ assignments[i].createdAt
                              >= now - SweepWindowHours * MinutesPerHour)

NoSend == [assignmentId |-> Null, wasNotified |-> FALSE, age |-> 0]

NewSweep(found) ==
    [pc           |-> "findRota",
     startedAt    |-> clock,
     queue        |-> found,
     attempt      |-> 0,
     messageTs    |-> Null,
     retried      |-> 0,
     failed       |-> 0,
     lastSend     |-> NoSend]

\* what the sweep knows of the send it is making: the record, whether the
\* record is marked notified by now, and its age when the sweep started
SendOf(sweep) ==
    LET id == Head(sweep.queue)
    IN  [assignmentId |-> id,
         wasNotified  |-> assignments[id].notified,
         age          |-> sweep.startedAt - assignments[id].createdAt]

\* lines 263 and 292: the next record of the loop, or the end of the sweep
NextUnnotified(k, sweep) ==
    IF Len(sweep.queue) > 1
    THEN sweeps' = [sweeps EXCEPT ![k] = [sweep EXCEPT !.pc = "findRota",
                                                      !.queue = Tail(@),
                                                      !.attempt = 0,
                                                      !.messageTs = Null]]
    ELSE sweeps' = RemoveAt(sweeps, k)

\* lines 246-261: the query; with nothing found the sweep ends at once
RetryFailedNotifications ==
    /\ ~Returning
    /\ Len(sweeps) < 1
    /\ \E workspaceMatches \in BOOLEAN :
         LET found == getUnnotifiedAssignments(clock, workspaceMatches)
         IN  IF found = <<>>
             THEN UNCHANGED sweeps
             ELSE sweeps' = Append(sweeps, NewSweep(found))
    /\ UNCHANGED <<clock, rotas, assignments, channel, isRunning, cycles, skips, gate, edits, retry, verify>>

\* lines 266-270: Rota.findById; a record without its rota is passed over
SweepFindRota(k) ==
    /\ ~Returning
    /\ sweeps[k].pc = "findRota"
    /\ IF assignments[Head(sweeps[k].queue)].rotaId \in DOMAIN rotas
       THEN sweeps' = [sweeps EXCEPT ![k].pc = "send", ![k].attempt = 1]
       ELSE NextUnnotified(k, sweeps[k])
    /\ UNCHANGED <<clock, rotas, assignments, channel, isRunning, cycles, skips, gate, edits, retry, verify>>

\* lines 273-280 with assignmentService 254-255: an attempt that succeeds
SweepSendOk(k) ==
    /\ ~Returning
    /\ sweeps[k].pc = "send"
    /\ LET record     == assignments[Head(sweeps[k].queue)]
           parameters == RetryParameters(SweepTrailingArguments)
       IN  /\ channel' = [channel EXCEPT ![record.channelId] = Append(@,
                               SentFor(RotaNotification(record.rotaId, record.userId,
                                                        parameters.assignmentId,
                                                        parameters.memberCount),
                                       Head(sweeps[k].queue)))]
           /\ sweeps' = [sweeps EXCEPT
                           ![k].pc = "mark",
                           ![k].messageTs = Len(channel[record.channelId]) + 1,
                           ![k].lastSend = SendOf(sweeps[k])]
    /\ UNCHANGED <<clock, rotas, assignments, isRunning, cycles, skips, gate, edits, retry, verify>>

\* assignmentService 256-273 with lines 284-290: an attempt that fails; after
\* the last one the record is counted as failed
SweepSendFail(k) ==
    /\ ~Returning
    /\ sweeps[k].pc = "send"
    /\ LET parameters == RetryParameters(SweepTrailingArguments)
           sent       == [sweeps[k] EXCEPT !.lastSend = SendOf(sweeps[k])]
       IN  IF WithinMaxRetries(sweeps[k].attempt + 1, parameters.maxRetries)
           THEN sweeps' = [sweeps EXCEPT ![k] = [sent EXCEPT !.attempt = @ + 1]]
           ELSE NextUnnotified(k, [sent EXCEPT !.failed = @ + 1])
    /\ UNCHANGED <<clock, rotas, assignments, channel, isRunning, cycles, skips, gate, edits, retry, verify>>

\* fault variant of the sweep's last step: the record is passed over without
\* being marked
SweepLeavesUnmarked(k) ==
    /\ ~Returning
    /\ sweeps[k].pc = "mark"
    /\ NextUnnotified(k, [sweeps[k] EXCEPT !.retried = @ + 1])
    /\ UNCHANGED <<clock, rotas, assignments, channel, isRunning, cycles, skips, gate, edits, retry, verify>>

\* lines 282-283: markAsNotified, retried++
SweepMarkNotified(k) ==
    /\ ~Returning
    /\ sweeps[k].pc = "mark"
    /\ assignments' = markAsNotified(Head(sweeps[k].queue), sweeps[k].messageTs)
    /\ NextUnnotified(k, [sweeps[k] EXCEPT !.retried = @ + 1])
    /\ UNCHANGED <<clock, rotas, channel, isRunning, cycles, skips, gate, edits, retry, verify>>

Sweep ==
    \/ RetryFailedNotifications
    \/ \E k \in 1 .. Len(sweeps) :
        \/ SweepFindRota(k)
        \/ SweepSendOk(k)
        \/ SweepSendFail(k)
        \/ SweepMarkNotified(k)

NextSweep == Tick \/ Midnight \/ Cycle \/ Sweep

\* one rota, so that the days on which a record ages past the sweep's window
\* are within reach
InitSweep ==
    /\ clock = Instant(0, ClockMinutes[1])
    /\ rotas = [r \in {1} |-> InitRotas[r]]
    /\ assignments = <<>>
    /\ channel = [c \in {"C1", "C2"} |-> <<>>]
    /\ isRunning = FALSE
    /\ cycles = <<>>
    /\ skips = <<>>
    /\ gate = IdleGate
    /\ sweeps = <<>>
    /\ edits = <<>>
    /\ retry = IdleRetry
    /\ verify = IdleVerify

SpecSweep == InitSweep /\ [][NextSweep]_vars

\* the steps of the sweeps in progress
SweepSteps ==
    \E k \in 1 .. Len(sweeps) :
        \/ SweepFindRota(k)
        \/ SweepSendOk(k)
        \/ SweepSendFail(k)
        \/ SweepMarkNotified(k)

\* the cycle and the sweep during one day
NextSweepDay == Tick \/ Cycle \/ Sweep

\* a sweep in progress is always resumed: every await of the sweep settles and
\* its continuation runs, and a cycle that has returned is taken off
SpecSweepLive ==
    InitSweep /\ [][NextSweepDay]_vars /\ SF_vars(SweepSteps) /\ WF_vars(Cycle)

\* the pending record i is in the list of a sweep in progress
InSweep(i) ==
    \E k \in 1 .. Len(sweeps) :
        \E j \in 1 .. Len(sweeps[k].queue) : sweeps[k].queue[j] = i

\* the sweep's last attempt for the record at the head of its list is refused
SweepGivesUp(k) ==
    /\ sweeps[k].pc = "send"
    /\ sweeps[k].attempt = RetryParameters(SweepTrailingArguments).maxRetries
    /\ sweeps' # sweeps
    /\ channel' = channel

C18_SweepMakesTwoAttempts ==
    \A k \in 1 .. Len(sweeps) : sweeps[k].attempt <= SweepBudget

\* the sweep's query returns no record older than 24 hours and none marked
\* notified
SweepQueryIsFiltered ==
    [][Len(sweeps') = Len(sweeps) + 1 =>
        \A j \in 1 .. Len(sweeps'[Len(sweeps')].queue) :
            LET id == sweeps'[Len(sweeps')].queue[j]
            IN  /\ ~assignments[id].notified
                /\ clock - assignments[id].createdAt
                     <= SweepWindowHours * MinutesPerHour]_vars

\* C19: the sweep never attempts delivery for a record created more than 24
\* hours before the sweep, nor for a record already marked notified.
C19_SweepSendsOnlyRecentPending ==
    \A k \in 1 .. Len(sweeps) :
        sweeps[k].lastSend.assignmentId # Null =>
            /\ ~sweeps[k].lastSend.wasNotified
            /\ sweeps[k].lastSend.age <= SweepWindowHours * MinutesPerHour

\* ---------------------------------------------------------------------------
\* rotaController.updateRota (lines 99-169) changing the member list

\* the member lists an edit submits: B and C are removed
MemberEdits == {<<"A">>}

\* lines 100-102: getRotaById; the document loaded carries currentIndex
UpdateRotaLoad(rotaId, members) ==
    /\ ~Returning
    /\ Len(edits) < 1
    /\ edits' = Append(edits, [rotaId      |-> rotaId,
                               members     |-> members,
                               loadedIndex |-> rotas[rotaId].currentIndex])
    /\ UNCHANGED <<clock, rotas, assignments, channel, isRunning, cycles, skips, gate, sweeps, retry, verify>>

\* lines 126-133 and 165: members are set, currentIndex is reset when the
\* value loaded is past the new list, and save() writes the paths set
UpdateRotaSave(k) ==
    /\ ~Returning
    /\ LET e == edits[k]
       IN  rotas' = [rotas EXCEPT
                       ![e.rotaId].members = e.members,
                       ![e.rotaId].currentIndex =
                           IF e.loadedIndex >= Len(e.members) THEN 0 ELSE @]
    /\ edits' = RemoveAt(edits, k)
    /\ UNCHANGED <<clock, assignments, channel, isRunning, cycles, skips, gate, sweeps, retry, verify>>

Edit ==
    \/ \E rotaId \in DOMAIN rotas, members \in MemberEdits :
            UpdateRotaLoad(rotaId, members)
    \/ \E k \in 1 .. Len(edits) : UpdateRotaSave(k)

NextEdit == Cycle \/ Skip \/ Edit

\* one rota, at its notification time
InitEdit ==
    /\ clock = Instant(0, ClockMinutes[Len(ClockMinutes)])
    /\ rotas = [r \in {1} |-> InitRotas[r]]
    /\ assignments = <<>>
    /\ channel = [c \in {"C1", "C2"} |-> <<>>]
    /\ isRunning = FALSE
    /\ cycles = <<>>
    /\ skips = <<>>
    /\ gate = IdleGate
    /\ sweeps = <<>>
    /\ edits = <<>>
    /\ retry = IdleRetry
    /\ verify = IdleVerify

SpecEdit == InitEdit /\ [][NextEdit]_vars

\* C13: whatever creations, member-list edits, cycles and skips have run,
\* every rota with a non-empty member list has 0 <= currentIndex < number of
\* members.
C13_CursorWithinMembers ==
    \A r \in DOMAIN rotas :
        rotas[r].members # <<>> =>
            /\ 0 <= rotas[r].currentIndex
            /\ rotas[r].currentIndex < Len(rotas[r].members)

\* ---------------------------------------------------------------------------
\* middleware/slackVerify.js verifySlackRequest (lines 8-28)

SigningSecret == "signing-secret"

\* crypto.createHmac('sha256', key).update(base).digest('hex'): two digests are
\* equal exactly when key and base are
Hmac(key, base) == [key |-> key, base |-> base, wellFormed |-> TRUE]

\* line 13: `v0:${ts}:${buf}`
SignatureBase(ts, buf) == <<"v0", ts, buf>>

\* lines 9-27: 401 when the digests differ, 500 when timingSafeEqual throws on
\* buffers of different length, and otherwise no response: the request goes on
\* to its handler
verifySlackRequest(request) ==
    LET hash == Hmac(SigningSecret, SignatureBase(request.timestamp, request.body))
    IN  IF ~request.signature.wellFormed THEN "500 Error verifying request"
        ELSE IF hash # request.signature THEN "401 Invalid Slack signature"
        ELSE "accepted"

\* the times, in seconds, at which requests are signed and received
RequestTimes == {t * RequestTimeStep : t \in 0 .. MaxRequestTimes}

RequestBodies == {"event", "action"}

\* the signatures a sender can attach: Slack's own for some timestamp and
\* body, one made with another key, and a header that is not a digest
RequestSignatures ==
    {Hmac(key, SignatureBase(ts, body)) :
        key \in {SigningSecret, "other-secret"}, ts \in RequestTimes,
        body \in RequestBodies}
    \cup {NoRequest.signature}

\* POST /slack/events or /slack/actions: a request arrives at time now
ReceiveSlackRequest ==
    /\ \E now \in RequestTimes, ts \in RequestTimes, body \in RequestBodies,
          signature \in RequestSignatures :
          /\ ts <= now
          /\ LET request == [timestamp |-> ts, body |-> body, signature |-> signature]
             IN  verify' = [now |-> now, request |-> request,
                            response |-> verifySlackRequest(request)]
    /\ UNCHANGED <<clock, rotas, assignments, channel, isRunning, cycles, skips, gate, sweeps, edits, retry>>

NextVerify == ReceiveSlackRequest

SpecVerify == Init /\ [][NextVerify]_vars

\* C23: a request whose x-slack-request-timestamp is more than 5 minutes older
\* than the current time is rejected, even when its signature is valid for
\* that timestamp and body.
C23_StaleRequestRejected ==
    (/\ verify.response # "none"
     /\ verify.now - verify.request.timestamp > ReplayWindowSeconds)
        => verify.response # "accepted"

\* ---------------------------------------------------------------------------
\* The scheduler with a database that can refuse the write of a record

\* assignmentService.createAssignment lines 19-25: assignment.save() rejects,
\* the error is logged and thrown on to processRota's catch
CreateScheduledAssignmentFails(k) ==
    /\ ~Returning
    /\ cycles[k].pc = "create"
    /\ cycles' = [cycles EXCEPT ![k].pc = "catch"]
    /\ UNCHANGED <<clock, rotas, assignments, channel, isRunning, skips, gate, sweeps, edits, retry, verify>>

StoreFailure == \E k \in 1 .. Len(cycles) : CreateScheduledAssignmentFails(k)

NextStore == Tick \/ Midnight \/ Cycle \/ StoreFailure

SpecStore == InitSweep /\ [][NextStore]_vars

\* ---------------------------------------------------------------------------
\* Two skip requests in flight: the button of a notification is pressed again,
\* by the same or another user, before the first request has been answered

\* lines 292-316, as HandleSkipPerson, while another request is in progress
HandleSkipPersonMeanwhile(assignmentId, userId) ==
    /\ ~Returning
    /\ Len(skips) = 1
    /\ Len(assignments) < MaxRecords
    /\ LET reason == validateSkipRequest(assignmentId)
           call   == NewSkip(assignmentId, userId)
       IN  IF reason # "ok"
           THEN skips' = Append(skips, [call EXCEPT !.pc = "returned",
                                                    !.response = reason])
           ELSE skips' = Append(skips, [call EXCEPT
                                           !.pc = "load",
                                           !.assignment = assignments[assignmentId]])
    /\ UNCHANGED <<clock, rotas, assignments, channel, isRunning, cycles, gate, sweeps, edits, retry, verify>>

SkipMeanwhile ==
    \E id \in 1 .. Len(assignments), u \in OtherSkipActors :
        HandleSkipPersonMeanwhile(id, u)

NextOverlap == Cycle \/ Skip \/ SkipMeanwhile

\* one rota at its notification time; a cycle and up to two skip requests
\* overlap
SpecOverlap == InitEdit /\ [][NextOverlap]_vars

\* ---------------------------------------------------------------------------
\* rotaController.deleteRota: the rota is kept and marked inactive

\* lines 174-183: getRotaById, isActive = false, save (the save writes the
\* one modified path)
deleteRota(rotaId) ==
    /\ rotas[rotaId].isActive
    /\ rotas' = [rotas EXCEPT ![rotaId].isActive = FALSE]
    /\ UNCHANGED <<clock, assignments, channel, isRunning, cycles, skips, gate, sweeps, edits, retry, verify>>

Deactivate == \E rotaId \in DOMAIN rotas : deleteRota(rotaId)

NextDeactivate == Cycle \/ Skip \/ Deactivate

\* one rota at its notification time; it is deactivated before, during or
\* after a cycle or a skip
SpecDeactivate == InitEdit /\ [][NextDeactivate]_vars

NextEditDays == Tick \/ Midnight \/ Cycle \/ Edit

\* one rota over several days; its member list is edited while cycles run
SpecEditDays == InitSweep /\ [][NextEditDays]_vars

\* ---------------------------------------------------------------------------
\* A skip action whose payload comes from another workspace

\* users of a workspace other than the one that owns the rotas
ForeignSkipActors == {"W"}

\* payload.team.id of a block action sent by the user
TeamOf(userId) == IF userId \in ForeignSkipActors THEN "T2" ELSE "T1"

\* handleBlockAction passes the payload on; handleSkipPerson takes actions
\* and user from it and never reads team
SkipFromOtherTeam ==
    \E id \in 1 .. Len(assignments), u \in ForeignSkipActors : HandleSkipPerson(id, u)

NextForeign == Cycle \/ Skip \/ SkipFromOtherTeam

\* one rota of workspace T1 at its notification time; skip actions arrive from
\* users of T1 and of T2
SpecForeign == InitEdit /\ [][NextForeign]_vars

NextSkipDays == Tick \/ Midnight \/ Cycle \/ Skip

\* one rota over several days, with cycles and skips
SpecSkipDays == InitSweep /\ [][NextSkipDays]_vars

\* a posted notification carries the skip button of the record
ButtonPosted(assignmentId) ==
    \E c \in DOMAIN channel :
        \E i \in 1 .. Len(channel[c]) : channel[c][i].skipButton = assignmentId

\* a user presses the skip button of a posted notification
PressSkipButton ==
    \E id \in 1 .. Len(assignments), u \in SkipActors :
        /\ ButtonPosted(id)
        /\ HandleSkipPerson(id, u)

\* a skip request in progress takes its next step
SkipInProgress ==
    \E k \in 1 .. Len(skips) :
        \/ LoadRotaAndNextPerson(k)
        \/ CreateReplacement(k)
        \/ MarkOriginalSkipped(k)
        \/ SaveRotaIndex(k)
        \/ UpdateSkippedMessage(k)
        \/ SendReplacementOk(k)
        \/ SendReplacementFail(k)
        \/ SettleSkip(k)

NextSkipSweep == Cycle \/ PressSkipButton \/ SkipInProgress \/ Sweep

\* one rota at its notification time, with a cycle, skips and a retry sweep
SpecSkipSweep == InitEdit /\ [][NextSkipSweep]_vars

Next == Tick \/ Cycle \/ Skip
Spec == Init /\ [][Next]_vars

(* The scheduler alone, over the days 0 .. MaxDay *)
NextScheduler == Tick \/ Midnight \/ Cycle
SpecScheduler == Init /\ [][NextScheduler]_vars

-----------------------------------------------------------------------------
(* Properties of the scheduler *)

Days == 0 .. MaxDay

\* the ids of the records of one rota on one local day
RecordsOn(rotaId, day) ==
    {i \in AssignmentIds : /\ assignments[i].rotaId = rotaId
                           /\ DayOf(assignments[i].assignedDate) = day}

\* the invocation k takes a step of its own
Steps(k) ==
    /\ k \in 1 .. Len(cycles)
    /\ Len(cycles') = Len(cycles)
    /\ cycles'[k] # cycles[k]

OneCycleRecordPerDay ==
    \A r \in DOMAIN rotas, d \in Days :
        Cardinality({i \in RecordsOn(r, d) : assignments[i].origin = "cycle"}) <= 1

ExistingRecordMeansSkipped ==
    \A k \in 1 .. Len(cycles) :
        (/\ Steps(k)
         /\ cycles[k].pc = "exists"
         /\ RecordsOn(cycles[k].rota.id, DayOf(clock)) # {})
        => /\ cycles'[k].pc = "loop"
           /\ cycles'[k].results.skipped = cycles[k].results.skipped + 1
           /\ cycles'[k].results.processed = cycles[k].results.processed
           /\ UNCHANGED <<assignments, rotas, channel>>

\* C1: for every rota and calendar day the scheduling cycle creates at most
\* one record; once a record of the rota exists for the day, a run that
\* comes to the rota counts it as skipped and creates no record, advances
\* no cursor and posts no notification for it.
C1_AtMostOneCycleRecordPerDay ==
    []OneCycleRecordPerDay /\ [][ExistingRecordMeansSkipped]_vars

C1_Witness ==
    \E k \in 1 .. Len(cycles) :
        /\ cycles[k].last.outcome = "already_assigned"
        /\ RecordsOn(cycles[k].last.rotaId, DayOf(clock)) # {}

\* C2: a rota whose processing fails becomes a per-item failure of the
\* cycle; processAllRotas does not throw.
C2_FailureIsPerItem ==
    \A k \in 1 .. Len(cycles) : cycles[k].returned # "throw"

PendingRecordIsAlone ==
    \A i, j \in AssignmentIds :
        (/\ i # j
         /\ assignments[i].origin = "cycle" /\ assignments[j].origin = "cycle"
         /\ ~assignments[i].notified)
        => ~(/\ assignments[i].rotaId = assignments[j].rotaId
             /\ assignments[i].assignedDate = assignments[j].assignedDate)

DeliveryExhaustedKeepsRecord ==
    \A k \in 1 .. Len(cycles) :
        (/\ Steps(k)
         /\ cycles[k].pc = "send"
         /\ cycles'[k].pc # "send"
         /\ channel' = channel)
        => /\ assignments' = assignments
           /\ ~assignments[cycles[k].assignmentId].notified

NoRecordRemoved ==
    /\ Len(assignments') >= Len(assignments)
    /\ \A i \in AssignmentIds :
        /\ assignments'[i].rotaId = assignments[i].rotaId
        /\ assignments'[i].userId = assignments[i].userId
        /\ assignments'[i].assignedDate = assignments[i].assignedDate
        /\ assignments[i].notified => assignments'[i].notified

\* C3: when every delivery attempt for a freshly created record fails, the
\* record stays in the ledger with notified = false (no step removes or
\* rewrites a record), and no cycle creates a second record for the rota
\* on that day.
C3_PendingRecordKept ==
    /\ []PendingRecordIsAlone
    /\ [][DeliveryExhaustedKeepsRecord /\ NoRecordRemoved]_vars

C3_Witness ==
    \E k \in 1 .. Len(cycles) :
        /\ cycles[k].last.outcome = "already_assigned"
        /\ \E i \in RecordsOn(cycles[k].last.rotaId, DayOf(clock)) :
              ~assignments[i].notified

AtMostOneCycleProcessing ==
    /\ Cardinality({k \in 1 .. Len(cycles) : Processing(cycles[k])}) <= 1
    /\ (\E k \in 1 .. Len(cycles) : Processing(cycles[k])) => isRunning

BusyCallIsNoOp ==
    (isRunning /\ Len(cycles') = Len(cycles) + 1)
    => /\ cycles'[Len(cycles')].pc = "returned"
       /\ cycles'[Len(cycles')].returned = "busy"
       /\ SubSeq(cycles', 1, Len(cycles)) = cycles
       /\ isRunning'
       /\ UNCHANGED <<rotas, assignments, channel>>

\* C4: a call of processAllRotas made while a cycle is in progress returns
\* no result, changes no rota, record or message and leaves the flag set;
\* at no time are two invocations processing rotas.
C4_SingleFlight ==
    []AtMostOneCycleProcessing /\ [][BusyCallIsNoOp]_vars

C4_Witness ==
    \E j, k \in 1 .. Len(cycles) :
        /\ Processing(cycles[j])
        /\ cycles[j].pc = "send"
        /\ cycles[k].returned = "busy"

-----------------------------------------------------------------------------
(* Properties of the rotation order *)

\* the member after userId in list order, wrapping
Following(members, userId) ==
    LET i == CHOOSE x \in 1 .. Len(members) : members[x] = userId
    IN  members[(i % Len(members)) + 1]

\* the members who have a record of the rota on the day, skipped or not
UsedOn(rotaId, day) == {assignments[i].userId : i \in RecordsOn(rotaId, day)}

\* the offsets j from the cursor at which the member has no record on the day
UnusedOffsets(rotaId, day) ==
    LET members == rotas[rotaId].members
    IN  {j \in 1 .. Len(members) :
            At(members, (rotas[rotaId].currentIndex + j) % Len(members))
                \notin UsedOn(rotaId, day)}

\* C11: unless every member of the rota has a record for the day,
\* getNextAvailablePerson returns a member without one: the first such member
\* scanning circularly from (currentIndex + 1) mod n, with newIndex the index
\* of that member.
C11_NextAvailableIsFirstUnused ==
    \A r \in DOMAIN rotas, d \in Days :
        LET members == rotas[r].members
            n       == Len(members)
            person  == getNextAvailablePerson(r, Instant(d, 0))
            unused  == UnusedOffsets(r, d)
        IN  unused # {} =>
              /\ person.userId \notin UsedOn(r, d)
              /\ \E j \in unused :
                    /\ \A h \in unused : j <= h
                    /\ person.newIndex = (rotas[r].currentIndex + j) % n
              /\ At(members, person.newIndex) = person.userId

\* a skip in progress whose scan went past a member already assigned today
C11_Witness ==
    \E k \in 1 .. Len(skips) :
        /\ skips[k].pc = "create"
        /\ LET r == skips[k].assignment.rotaId
               n == Len(rotas[r].members)
           IN  /\ skips[k].nextPerson.newIndex # (skips[k].loadedIndex + 1) % n
               /\ skips[k].nextPerson.userId
                    \notin UsedOn(r, DayOf(skips[k].assignment.assignedDate))

\* C12: at every moment, the intermediate states of a skip included, a rota
\* has at most one record that is not skipped for a calendar day.
C12_OneActiveRecordPerDay ==
    \A r \in DOMAIN rotas, d \in Days :
        Cardinality({i \in RecordsOn(r, d) : ~assignments[i].skipped}) <= 1

AlreadySkipped == "This assignment has already been skipped"

\* a skip request arrives in this step
SkipArrives == Len(skips') = Len(skips) + 1

\* C15: a skip request whose target record already has skipped=true is
\* rejected as already skipped, and with requests handled one after the other a
\* skipped record is never skipped again: its skipped flag, its skippedBy and
\* its replacement stay as the first skip set them.
C15_SkippedAtMostOnce ==
    [][/\ SkipArrives =>
            LET call == skips'[Len(skips')]
            IN  (/\ call.assignmentId \in AssignmentIds
                 /\ assignments[call.assignmentId].skipped)
                    => /\ call.pc = "returned"
                       /\ call.response = AlreadySkipped
       /\ \A i \in AssignmentIds :
            assignments[i].skipped =>
                /\ assignments'[i].skipped
                /\ assignments'[i].skippedBy = assignments[i].skippedBy
                /\ assignments'[i].replacedByAssignmentId
                      = assignments[i].replacedByAssignmentId]_vars

\* a request on a record that is already skipped has been turned down
C15_Witness ==
    \E k \in 1 .. Len(skips) :
        /\ skips[k].pc = "returned"
        /\ skips[k].response = AlreadySkipped
        /\ assignments[skips[k].assignmentId].skipped

\* C20: every notification of a rota with more than one member carries the
\* skip button, whichever of the cycle, a skip (the replacement notification)
\* and the retry sweep sent it; a notification of a rota with one member
\* carries none.
C20_SkipButtonOnEveryNotification ==
    \A c \in DOMAIN channel :
        \A i \in 1 .. Len(channel[c]) :
            LET message == channel[c][i]
            IN  (message.skipButton # Null)
                    <=> (Len(rotas[message.rotaId].members) > 1)

OnlyOneMember == "Cannot skip when rota has only one member"

\* the skip request arriving in this step targets a record of a rota that has
\* at most one member
SkipArrivesForSingleMemberRota ==
    /\ SkipArrives
    /\ LET id == skips'[Len(skips')].assignmentId
       IN  /\ id \in AssignmentIds
           /\ Len(rotas[assignments[id].rotaId].members) <= 1

\* C14 as stated: a skip request on a record of a rota with one member or none
\* is always rejected by the skip-limit check, whatever the day's records are.
C14_RejectedBySkipLimit ==
    [][SkipArrivesForSingleMemberRota =>
        /\ skips'[Len(skips')].pc = "returned"
        /\ skips'[Len(skips')].response = OnlyOneMember]_vars

\* C14: a skip request on a record of a rota with one member or none is
\* always rejected: as already skipped when the record has skipped=true, and
\* otherwise by the skip-limit check that the rota has only one member,
\* whatever the day's records are.
C14_SingleMemberSkipRejected ==
    [][SkipArrivesForSingleMemberRota =>
        LET call == skips'[Len(skips')]
        IN  /\ call.pc = "returned"
            /\ call.response = IF assignments[call.assignmentId].skipped
                               THEN AlreadySkipped
                               ELSE OnlyOneMember]_vars

\* a request on a record of a one-member rota was turned down by the
\* skip-limit check
C14_Witness ==
    \E k \in 1 .. Len(skips) :
        /\ skips[k].pc = "returned"
        /\ skips[k].response = OnlyOneMember
        /\ skips[k].assignmentId \in AssignmentIds
        /\ Len(rotas[assignments[skips[k].assignmentId].rotaId].members) = 1

\* the skip call k sends its replacement notification in this step
ReplacementSent(k) ==
    /\ skips[k].pc = "send"
    /\ skips' # skips
    /\ channel'[skips[k].assignment.channelId]
         # channel[skips[k].assignment.channelId]

\* C21: a skip whose edit of the original notification fails (the message
\* lookup or the update call errors) goes on to the replacement notification;
\* when that is sent the replacement record is marked delivered and the skip
\* reports success.
C21_EditFailureDoesNotFailSkip ==
    [][\A k \in 1 .. Len(skips) :
        /\ (skips[k].pc = "edit" /\ skips' # skips)
             => skips'[k].pc = "send"
        /\ (skips[k].edit = "failed" /\ ReplacementSent(k))
             => /\ skips'[k].pc = "returned"
                /\ skips'[k].response = "success"
                /\ assignments'[skips[k].newAssignmentId].notified]_vars

\* a skip has reported success although the edit of the original failed: the
\* original notification is not struck through and the replacement is
\* delivered
C21_Witness ==
    \E k \in 1 .. Len(skips) :
        /\ skips[k].pc = "returned"
        /\ skips[k].response = "success"
        /\ skips[k].edit = "failed"
        /\ LET original == assignments[skips[k].assignmentId]
           IN  /\ ~channel[original.channelId][original.messageTs].struck
               /\ assignments[original.replacedByAssignmentId].notified

\* C24: the exhausted fallback of getNextAvailablePerson is never reached:
\* whatever cycles and skips have run, no member has two records for the same
\* rota and day, and a rota with n members has at most n records per day.
C24_NoMemberAssignedTwiceADay ==
    \A r \in DOMAIN rotas, d \in Days :
        /\ \A i, j \in RecordsOn(r, d) :
              assignments[i].userId = assignments[j].userId => i = j
        /\ Cardinality(RecordsOn(r, d)) <= Len(rotas[r].members)

\* C27: a record has skipped=true if and only if its replacedByAssignmentId
\* is not null; the link points to an existing record of the same rota and
\* the same assigned day, created later and other than the record itself; and
\* when a skip reports success the replacement record and the skip fields of
\* the original are stored.
C27_SkippedIffReplaced ==
    /\ \A i \in AssignmentIds :
          LET a == assignments[i]
          IN  /\ a.skipped <=> a.replacedByAssignmentId # Null
              /\ a.skipped =>
                    /\ a.replacedByAssignmentId \in AssignmentIds
                    /\ a.replacedByAssignmentId > i
                    /\ assignments[a.replacedByAssignmentId].rotaId = a.rotaId
                    /\ assignments[a.replacedByAssignmentId].assignedDate
                          = a.assignedDate
                    /\ assignments[a.replacedByAssignmentId].createdAt >= a.createdAt
    /\ \A k \in 1 .. Len(skips) :
          (skips[k].pc = "returned" /\ skips[k].response = "success") =>
              /\ assignments[skips[k].assignmentId].skipped
              /\ assignments[skips[k].assignmentId].skippedBy
                    = skips[k].skippedByUserId
              /\ assignments[skips[k].assignmentId].replacedByAssignmentId
                    \in AssignmentIds

\* a skip has reported success and its record is linked to the replacement
C27_Witness ==
    \E k \in 1 .. Len(skips) :
        /\ skips[k].pc = "returned"
        /\ skips[k].response = "success"
        /\ assignments[skips[k].assignmentId].skipped
        /\ assignments[skips[k].assignmentId].replacedByAssignmentId
              > skips[k].assignmentId

\* C28: the skipped state is terminal: no step sets skipped back to false or
\* changes skippedBy or replacedByAssignmentId of a skipped record (skippedAt
\* is written by the same save as skippedBy), and no step deletes a record.
C28_SkippedIsTerminal ==
    [][/\ Len(assignments') >= Len(assignments)
       /\ \A i \in AssignmentIds :
            assignments[i].skipped =>
                  /\ assignments'[i].skipped
                  /\ assignments'[i].skippedBy = assignments[i].skippedBy
                  /\ assignments'[i].replacedByAssignmentId
                        = assignments[i].replacedByAssignmentId]_vars

\* C29: once a rota is inactive no step (of a cycle, one in progress
\* included, or of a skip) stores a new assignment record for it or changes
\* its cursor.
C29_InactiveRotaUntouched ==
    [][\A r \in DOMAIN rotas :
          ~rotas[r].isActive =>
              /\ rotas'[r].currentIndex = rotas[r].currentIndex
              /\ \A i \in (DOMAIN assignments') \ (DOMAIN assignments) :
                    assignments'[i].rotaId # r]_vars

\* C30: with the cursor of a rota out of range (currentIndex >= the number of
\* members) the scheduling path and the skip path still select one of the
\* rota's members.
C30_OutOfRangeCursorWraps ==
    [][\A r \in DOMAIN rotas :
          rotas[r].currentIndex >= Len(rotas[r].members) =>
              /\ \A k \in 1 .. Len(cycles) :
                    (/\ cycles[k].pc = "next"
                     /\ cycles[k].rota.id = r
                     /\ cycles'[k].pc # "next")
                        => \E i \in 1 .. Len(rotas[r].members) :
                              cycles'[k].userId = rotas[r].members[i]
              /\ \A k \in 1 .. Len(skips) :
                    (/\ skips[k].pc = "load"
                     /\ skips[k].assignment.rotaId = r
                     /\ skips'[k].pc # "load")
                        => \E i \in 1 .. Len(rotas[r].members) :
                              skips'[k].nextPerson.userId = rotas[r].members[i]]_vars

\* C31: when a skip of a record that has a message handle has reported
\* success, the original notification in the channel has been edited: it is
\* struck through (the same chat.update carries the note naming the actor).
C31_SkipEditsOriginalMessage ==
    \A k \in 1 .. Len(skips) :
        LET original == assignments[skips[k].assignmentId]
        IN  (/\ skips[k].pc = "returned"
             /\ skips[k].response = "success"
             /\ original.messageTs # Null)
                => channel[original.channelId][original.messageTs].struck

\* C32: a step of a skip whose payload team differs from the workspace of the
\* target record stores no record, marks no record skipped and changes no
\* cursor.
C32_SkipStaysInItsWorkspace ==
    [][\A k \in 1 .. Len(skips) :
          (/\ skips[k].assignmentId \in DOMAIN assignments
           /\ TeamOf(skips[k].skippedByUserId)
                 # assignments[skips[k].assignmentId].workspaceId
           /\ skips' # skips)
              => /\ assignments' = assignments
                 /\ rotas' = rotas]_vars

\* C33: when the last record of a rota is the replacement stored by a skip
\* and a cycle of a later day (the skip ended the day before) stores the next
\* record, that record goes to the member that follows the replacement member
\* in list order.
C33_CycleAfterSkipAssignsFollowing ==
    \A i, j \in AssignmentIds :
        (/\ i < j
         /\ assignments[i].rotaId = assignments[j].rotaId
         /\ \A m \in (i + 1) .. (j - 1) : assignments[m].rotaId # assignments[i].rotaId
         /\ assignments[i].origin = "skip"
         /\ assignments[j].origin = "cycle"
         /\ assignments[j].assignedDate > assignments[i].assignedDate
         /\ DayOf(assignments[j].createdAt) > DayOf(assignments[i].createdAt)
         /\ Len(rotas[assignments[i].rotaId].members) >= 2)
            => assignments[j].userId
                  = Following(rotas[assignments[i].rotaId].members, assignments[i].userId)

\* the messages posted for an assignment record
SendsFor(assignmentId) ==
    {<<c, i>> \in UNION {{c} \X (1 .. Len(channel[c])) : c \in DOMAIN channel} :
        channel[c][i].record = assignmentId}

\* C34: under every interleaving of the cycle and the retry sweep no
\* assignment record has more than one successful notification send.
C34_AtMostOneSendPerRecord ==
    \A id \in AssignmentIds : Cardinality(SendsFor(id)) <= 1

\* C35: skip requests for one record, concurrent ones included, produce at
\* most one replacement record: once every request has been answered, a rota
\* has on each day no more replacement records than skipped records.
C35_OneReplacementPerSkippedRecord ==
    (\A k \in 1 .. Len(skips) : skips[k].pc = "returned") =>
        \A r \in DOMAIN rotas, d \in Days :
            Cardinality({i \in RecordsOn(r, d) : assignments[i].origin = "skip"})
                <= Cardinality({i \in RecordsOn(r, d) : assignments[i].skipped})

SkipLimitReached == "Cannot skip: all other members have been skipped"

\* the reasons validateSkipRequest gives for refusing a request
Rejections ==
    {"Assignment not found", "Rota not found", AlreadySkipped, OnlyOneMember,
     SkipLimitReached}

\* C36: a skip request that validation rejects (record not found, already
\* skipped, single-member rota, skip limit reached) returns the reason and
\* leaves the records, the cursors and the channel as they were, both when it
\* is rejected and when its answer is taken.
C36_RejectedSkipChangesNothing ==
    [][/\ SkipArrives =>
            LET call   == skips'[Len(skips')]
                reason == validateSkipRequest(call.assignmentId)
            IN  reason # "ok"
                    => /\ call.pc = "returned"
                       /\ call.response = reason
                       /\ reason \in Rejections
                       /\ assignments' = assignments
                       /\ rotas' = rotas
                       /\ channel' = channel
       /\ \A k \in 1 .. Len(skips) :
            (/\ skips[k].pc = "returned"
             /\ skips[k].response \in Rejections
             /\ skips' # skips)
                => /\ skips' = RemoveAt(skips, k)
                   /\ assignments' = assignments
                   /\ rotas' = rotas
                   /\ channel' = channel]_vars

\* a request on a skipped record has been rejected, and the records are the
\* skipped one and its delivered replacement, as the first skip left them
C36_Witness ==
    \E k \in 1 .. Len(skips) :
        /\ skips[k].pc = "returned"
        /\ skips[k].response \in Rejections
        /\ skips[k].assignmentId \in AssignmentIds
        /\ Len(assignments) = 2
        /\ assignments[skips[k].assignmentId].replacedByAssignmentId = 2
        /\ assignments[2].notified
        /\ Len(channel[assignments[2].channelId]) = 2

\* C37: the retry sweep posts no notification for a record that has been
\* skipped.
C37_SweepPassesOverSkipped ==
    [][\A k \in 1 .. Len(sweeps) :
          (/\ sweeps[k].pc = "send"
           /\ k \in 1 .. Len(sweeps')
           /\ sweeps'[k].pc = "mark")
              => ~assignments[Head(sweeps[k].queue)].skipped]_vars

\* getSchedulerStatus().isProcessing is true only while a cycle is running
FlagOnlyWhileProcessing ==
    isRunning => \E k \in 1 .. Len(cycles) : Processing(cycles[k])

\* the invocation that holds the flag clears it in the step in which it ends
EndingClearsFlag ==
    \A k \in 1 .. Len(cycles) :
        (/\ Processing(cycles[k])
         /\ Len(cycles') = Len(cycles)
         /\ ~Processing(cycles'[k]))
            => /\ ~isRunning'
               /\ cycles'[k].returned \in {"results", "empty", "throw"}

\* a trigger that arrives when no cycle is running starts a cycle
TriggerAfterEndIsServed ==
    (/\ Len(cycles') = Len(cycles) + 1
     /\ \A k \in 1 .. Len(cycles) : ~Processing(cycles[k]))
        => /\ Processing(cycles'[Len(cycles')])
           /\ isRunning'

\* C38: the in-progress flag is always released: the invocation of
\* processAllRotas that set it clears it when it ends, by returning its
\* results, by finding no active rota or by throwing; the flag is set only
\* while a cycle runs, and a trigger arriving after the cycle has ended is
\* served.
C38_FlagAlwaysReleased ==
    []FlagOnlyWhileProcessing /\ [][EndingClearsFlag /\ TriggerAfterEndIsServed]_vars

\* the cycle that held the flag has ended by throwing and the flag is clear
C38_Witness ==
    /\ ~isRunning
    /\ \E k \in 1 .. Len(cycles) : cycles[k].returned = "throw"

\* C7: on one day at most n - 1 skips succeed for a rota with n >= 2
\* members: once n - 1 records of the day have been skipped a further skip
\* is rejected.
C7_AtMostNMinusOneSkips ==
    \A r \in DOMAIN rotas, d \in Days :
        Len(rotas[r].members) >= 2 =>
            Cardinality({i \in RecordsOn(r, d) : assignments[i].skipped})
                <= Len(rotas[r].members) - 1

\* C8: a skip assigns the member that follows the skipped member in list
\* order: with members (A, B, C) and A assigned by the cycle, the first skip
\* assigns B and the second C.
C8_SkipAssignsFollowingMember ==
    \A i \in AssignmentIds :
        (assignments[i].skipped /\ assignments[i].replacedByAssignmentId \in AssignmentIds)
        => assignments[assignments[i].replacedByAssignmentId].userId
             = Following(rotas[assignments[i].rotaId].members, assignments[i].userId)

\* C9: for the same rota and the same records of today the scheduling path
\* (getNextAssignment) and the skip path (getNextAvailablePerson) choose the
\* same member and persist the same cursor.
C9_PathsAgree ==
    \A r \in DOMAIN rotas :
        /\ getNextAssignment(rotas[r]).userId = getNextAvailablePerson(r, clock).userId
        /\ getNextAssignment(rotas[r]).currentIndex
             = getNextAvailablePerson(r, clock).newIndex

\* the members of the scheduled (cycle-created) records of a rota, oldest first
RECURSIVE ScheduledMembers(_, _)
ScheduledMembers(rotaId, n) ==
    IF n = 0 THEN <<>>
    ELSE IF assignments[n].rotaId = rotaId /\ assignments[n].origin = "cycle"
         THEN Append(ScheduledMembers(rotaId, n - 1), assignments[n].userId)
         ELSE ScheduledMembers(rotaId, n - 1)

NoSkips(rotaId) ==
    \A i \in AssignmentIds :
        assignments[i].rotaId = rotaId =>
            assignments[i].origin = "cycle" /\ ~assignments[i].skipped

\* C25: the cursor of a rota advances by exactly one position per scheduled
\* record actually created: once the passes have ended, currentIndex is the
\* number of scheduled records of the rota modulo its number of members, so
\* a pass that stored no record for the rota (not eligible, already assigned,
\* or failed before the record was stored) has left the cursor where it was.
C25_CursorAdvancesPerCreatedRecord ==
    Quiet =>
        \A r \in DOMAIN rotas :
            rotas[r].currentIndex
                = Len(ScheduledMembers(r, Len(assignments))) % Len(rotas[r].members)

====
